---- MODULE Spec2Model ----
(***************************************************************************)
(* State-machine model of halo2-dynamic-sha256's circuit builder:          *)
(*   src/src/gate.rs     ShaThreadBuilder and the packer assign_threads_sha *)
(*   src/src/circuit.rs  ShaCircuitBuilder (calculate_params, synthesis)    *)
(*                                                                         *)
(* A lane (Context) is a record [id, type_id, witness_gen_only, advice].   *)
(* The region is the log of assign_advice calls, in call order.            *)
(* Indices inside a lane are 0-based as in the code (advice[i + 1] in      *)
(* TLA+); lane positions t in threads_dense / threads_spread are 1-based.  *)
(***************************************************************************)
EXTENDS Integers, Sequences, FiniteSets, TLC

(* ------------------------------ bounds -------------------------------- *)
\* work recorded in one pass: lanes + cells of both kinds + generic threads
MaxWork == 8
\* dense (resp. spread) lanes created in one pass
MaxLanes == 2
\* generic phase-0 threads of the core manager
MaxGeneric == 2
\* dense/spread column width C of the SpreadConfig handed to the packer
MaxColumns == 2
\* log-size k is drawn from 0..MaxK
MaxK == 2
\* lookup cells requested per phase
MaxLookup == 2
\* generic advice cells recorded in phase 0
MaxCoreAdvice == 1
\* instance columns the caller exposes
MaxInstances == 1
\* circuits configured on one ConstraintSystem
MaxConfigured == 1

(* --------------------------- program constants ------------------------ *)
FIRST_PHASE == 0
MAX_PHASE == 3

\* Value::unknown(): distinct from every known witness value
Unknown == -1
\* Option::None for lookup_bits
NoBits == -1
Phases == 0..(MAX_PHASE - 1)
Stages == {"Mock", "Keygen", "Prover"}

VARIABLES
  witness_gen_only,   \* core.witness_gen_only()
  use_unknown,        \* core.use_unknown()
  threads_dense,      \* Seq of lanes
  threads_spread,     \* Seq of lanes
  thread_count,       \* core.phase_manager[0].thread_count()
  core_advice,        \* total advice cells recorded in the generic phase-0 threads
  lookup_total,       \* [Phases -> Nat]: lookup_manager[p].total_rows()
  config_params,      \* BaseCircuitParams
  last_call,          \* observation of the last calculate_params call (<<>> if none)
  num_advice_columns, \* spread.num_advice_columns of the Config used by the pass
  pc,                 \* position of the pass
  t,                  \* packer: position of the outer zip_eq (1-based lane pair)
  i,                  \* packer: enumerate() index of the inner zip_eq (0-based)
  num_limb_sum,       \* packer: running counter
  row_offset,         \* packer: current row
  region,             \* log of region.assign_advice calls
  assigned_advices,   \* copy_manager.assigned_advices: ContextCell -> physical cell
  lock,               \* holder of the copy manager mutex
  pass,               \* 1 for the first construction pass, 2 for the repeated one
  prev_pass,          \* layout and mode flags of the first pass, kept for comparison
  builder_stage,      \* the CircuitBuilderStage the builder was constructed for
  ctor,               \* the constructor that made the builder
  assigned_instances, \* ShaCircuitBuilder.assigned_instances: cells per instance column
  meta,               \* the ConstraintSystem handed to configure: columns allocated
  with_range,         \* the Config of the pass is MaybeRangeConfig::WithRange
  steps,              \* log of the steps sub_synthesize has completed in the pass
  ret                 \* what the step just taken returned: the lane positions of
                      \* sha_contexts_pair, the Config of configure_with_params

vars == <<witness_gen_only, use_unknown, threads_dense, threads_spread, thread_count,
          core_advice, lookup_total, config_params, last_call, num_advice_columns,
          pc, t, i, num_limb_sum, row_offset, region, assigned_advices, lock,
          pass, prev_pass, builder_stage, ctor, assigned_instances, meta, with_range,
          steps, ret>>

builder_vars == <<witness_gen_only, use_unknown, threads_dense, threads_spread,
                  thread_count, core_advice>>
sizing_vars == <<lookup_total, config_params, last_call>>
packer_vars == <<num_advice_columns, t, i, num_limb_sum, row_offset, region,
                 assigned_advices>>
pass_vars == <<pass, prev_pass>>
fixed_vars == <<builder_stage, ctor, assigned_instances, meta, with_range>>
obs_vars == <<steps, ret>>

(* ------------------------------ helpers ------------------------------- *)
EmptyMap == [x \in {} |-> 0]

\* a ConstraintSystem in which no column has been allocated
NoColumns == [base |-> 0, dense |-> 0, spread |-> 0]

NoPass == [layout |-> <<>>, witness_gen_only |-> FALSE, use_unknown |-> FALSE]

Min(a, b) == IF a <= b THEN a ELSE b

RECURSIVE TotalCells(_)
TotalCells(threads) ==
  IF threads = <<>> THEN 0
  ELSE Len(Head(threads).advice) + TotalCells(Tail(threads))

\* work recorded so far in the pass
Work ==
  Len(threads_dense) + Len(threads_spread) + TotalCells(threads_dense)
    + TotalCells(threads_spread) + thread_count

RECURSIVE Pow2(_)
Pow2(n) == IF n = 0 THEN 1 ELSE 2 * Pow2(n - 1)

(* ---------------------- ShaThreadBuilder (gate.rs) -------------------- *)
\* CircuitBuilderStage -> (witness_gen_only, use_unknown)
StageWitnessGenOnly(stage) == stage = "Prover"
\* unknown(..) switched on for the wrong stage
StageUseUnknownInProver(stage) == stage = "Prover"

StageUseUnknown(stage) == stage = "Keygen"

get_new_thread_id == thread_count

type_of == "phase0"

NewContext(thread_id) ==
  [id |-> thread_id, type_id |-> type_of,
   witness_gen_only |-> witness_gen_only, advice |-> <<>>]

\* ShaThreadBuilder::new: the core manager starts with use_unknown = false
ShaThreadBuilder_new(wgo) == [witness_gen_only |-> wgo, use_unknown |-> FALSE]

ShaThreadBuilder_unknown(builder, u) == [builder EXCEPT !.use_unknown = u]

ShaThreadBuilder_mock == ShaThreadBuilder_new(FALSE)

ShaThreadBuilder_keygen == ShaThreadBuilder_unknown(ShaThreadBuilder_new(FALSE), TRUE)

ShaThreadBuilder_prover == ShaThreadBuilder_new(TRUE)

ShaThreadBuilder_from_stage(stage) ==
  ShaThreadBuilder_unknown(ShaThreadBuilder_new(StageWitnessGenOnly(stage)),
                           StageUseUnknown(stage))

(* ---------------- ShaCircuitBuilder constructors (circuit.rs) ----------- *)
\* ShaCircuitBuilder::new wraps ShaThreadBuilder::new, unknown() forwards
ShaCircuitBuilder_new(wgo) == ShaThreadBuilder_new(wgo)

ShaCircuitBuilder_unknown(builder, u) == ShaThreadBuilder_unknown(builder, u)

ShaCircuitBuilder_from_stage(stage) ==
  ShaCircuitBuilder_unknown(ShaCircuitBuilder_new(StageWitnessGenOnly(stage)),
                            StageUseUnknown(stage))

ShaCircuitBuilder_keygen == ShaCircuitBuilder_from_stage("Keygen")

ShaCircuitBuilder_mock == ShaCircuitBuilder_from_stage("Mock")

ShaCircuitBuilder_prover == ShaCircuitBuilder_from_stage("Prover")

Builders == {"ShaThreadBuilder", "ShaCircuitBuilder"}

\* the constructors of both builders, and the stage each one is for
Constructors ==
  {<<b, c>> : b \in Builders, c \in {"mock", "keygen", "prover", "from_stage"}}

CtorStages(c) ==
  CASE c[2] = "mock" -> {"Mock"}
    [] c[2] = "keygen" -> {"Keygen"}
    [] c[2] = "prover" -> {"Prover"}
    [] OTHER -> Stages

Construct(c, stage) ==
  CASE c = <<"ShaThreadBuilder", "mock">> -> ShaThreadBuilder_mock
    [] c = <<"ShaThreadBuilder", "keygen">> -> ShaThreadBuilder_keygen
    [] c = <<"ShaThreadBuilder", "prover">> -> ShaThreadBuilder_prover
    [] c = <<"ShaThreadBuilder", "from_stage">> -> ShaThreadBuilder_from_stage(stage)
    [] c = <<"ShaCircuitBuilder", "mock">> -> ShaCircuitBuilder_mock
    [] c = <<"ShaCircuitBuilder", "keygen">> -> ShaCircuitBuilder_keygen
    [] c = <<"ShaCircuitBuilder", "prover">> -> ShaCircuitBuilder_prover
    [] OTHER -> ShaCircuitBuilder_from_stage(stage)

\* the flags of a builder that is still empty
EmptyBuilder(flags) ==
  /\ witness_gen_only = flags.witness_gen_only
  /\ use_unknown = flags.use_unknown
  /\ threads_dense = <<>>
  /\ threads_spread = <<>>
  /\ thread_count = 0
  /\ core_advice = 0

\* nothing has been sized, configured or synthesized yet
Fresh ==
  /\ lookup_total = [p \in Phases |-> 0]
  /\ config_params = [k |-> 0, num_advice_per_phase |-> <<>>, num_fixed |-> 0,
                      num_lookup_advice_per_phase |-> <<>>, lookup_bits |-> NoBits,
                      num_instance_columns |-> 0]
  /\ last_call = <<>>
  /\ num_advice_columns = 1
  /\ pc = "build"
  /\ t = 1
  /\ i = 0
  /\ num_limb_sum = 0
  /\ row_offset = 0
  /\ region = <<>>
  /\ assigned_advices = EmptyMap
  /\ lock = "none"
  /\ pass = 1
  /\ prev_pass = NoPass
  /\ assigned_instances = <<>>
  /\ meta = NoColumns
  /\ with_range = FALSE
  /\ steps = <<>>
  /\ ret = <<>>

Init ==
  /\ \E stage \in Stages :
       /\ witness_gen_only = StageWitnessGenOnly(stage)
       /\ use_unknown = StageUseUnknown(stage)
       /\ builder_stage = stage
  /\ ctor = <<"ShaCircuitBuilder", "from_stage">>
  /\ assigned_instances = <<>>
  /\ meta = NoColumns
  /\ with_range = FALSE
  /\ steps = <<>>
  /\ ret = <<>>
  /\ threads_dense = <<>>
  /\ threads_spread = <<>>
  /\ thread_count = 0
  /\ core_advice = 0
  /\ lookup_total = [p \in Phases |-> 0]
  /\ config_params = [k |-> 0, num_advice_per_phase |-> <<>>, num_fixed |-> 0,
                      num_lookup_advice_per_phase |-> <<>>, lookup_bits |-> NoBits,
                      num_instance_columns |-> 0]
  /\ last_call = <<>>
  /\ num_advice_columns = 1
  /\ pc = "build"
  /\ t = 1
  /\ i = 0
  /\ num_limb_sum = 0
  /\ row_offset = 0
  /\ region = <<>>
  /\ assigned_advices = EmptyMap
  /\ lock = "none"
  /\ pass = 1
  /\ prev_pass = NoPass

\* core.main(FIRST_PHASE): spawns the generic thread of phase 0 if none exists
MainThreadCount == IF thread_count = 0 THEN 1 ELSE thread_count

main ==
  /\ pc = "build"
  /\ Work < MaxWork
  /\ thread_count' = MainThreadCount
  /\ ret' = <<>>
  /\ UNCHANGED <<witness_gen_only, use_unknown, threads_dense, threads_spread,
                 core_advice, sizing_vars, packer_vars, pc, lock, pass_vars, fixed_vars, steps>>

\* pool(0).new_thread(): one more generic thread in phase 0
new_thread ==
  /\ pc = "build"
  /\ Work < MaxWork
  /\ thread_count < MaxGeneric
  /\ thread_count' = thread_count + 1
  /\ ret' = <<>>
  /\ UNCHANGED <<witness_gen_only, use_unknown, threads_dense, threads_spread,
                 core_advice, sizing_vars, packer_vars, pc, lock, pass_vars, fixed_vars, steps>>

new_thread_dense ==
  /\ pc = "build"
  /\ Work < MaxWork
  /\ Len(threads_dense) < MaxLanes
  /\ threads_dense' = Append(threads_dense, NewContext(get_new_thread_id))
  /\ ret' = <<>>
  /\ UNCHANGED <<witness_gen_only, use_unknown, threads_spread, thread_count,
                 core_advice, sizing_vars, packer_vars, pc, lock, pass_vars, fixed_vars, steps>>

new_thread_spread ==
  /\ pc = "build"
  /\ Work < MaxWork
  /\ Len(threads_spread) < MaxLanes
  /\ threads_spread' = Append(threads_spread, NewContext(get_new_thread_id))
  /\ ret' = <<>>
  /\ UNCHANGED <<witness_gen_only, use_unknown, threads_dense, thread_count,
                 core_advice, sizing_vars, packer_vars, pc, lock, pass_vars, fixed_vars, steps>>

\* a pair of fresh lanes on every call, whether or not lanes exist
sha_contexts_pair_fresh ==
  /\ pc = "build"
  /\ Work + 3 <= MaxWork
  /\ Len(threads_dense) < MaxLanes
  /\ Len(threads_spread) < MaxLanes
  /\ threads_dense' = Append(threads_dense, NewContext(get_new_thread_id))
  /\ threads_spread' = Append(threads_spread, NewContext(get_new_thread_id))
  /\ thread_count' = MainThreadCount
  /\ ret' = <<Len(threads_dense'), Len(threads_spread')>>
  /\ UNCHANGED <<witness_gen_only, use_unknown, core_advice, sizing_vars,
                 packer_vars, pc, lock, pass_vars, fixed_vars, steps>>

\* new_thread_dense if there is no dense lane, new_thread_spread if there is no
\* spread lane (both read the thread count before main spawns), then core.main;
\* returns the last_mut() of both lane lists, kept in ret as their positions
sha_contexts_pair ==
  /\ pc = "build"
  /\ Work + 3 <= MaxWork
  /\ threads_dense' = IF threads_dense = <<>>
                        THEN <<NewContext(get_new_thread_id)>> ELSE threads_dense
  /\ threads_spread' = IF threads_spread = <<>>
                         THEN <<NewContext(get_new_thread_id)>> ELSE threads_spread
  /\ thread_count' = MainThreadCount
  /\ ret' = <<Len(threads_dense'), Len(threads_spread')>>
  /\ UNCHANGED <<witness_gen_only, use_unknown, core_advice, sizing_vars,
                 packer_vars, pc, lock, pass_vars, fixed_vars, steps>>

\* The witness values are the caller's and opaque to the builder: the value
\* pushed at index idx of lane number lane identifies the cell, the kind and
\* the pass, so that a value stored in the wrong place is visible.
WitnessValue(kind, lane, idx) ==
  1000 * pass + (IF kind = "dense" THEN 100 ELSE 200) + 10 * lane + idx

\* the caller pushes a witness onto the lane that sha_contexts_pair /
\* new_thread_dense / new_thread_spread handed out: the last one
PushAdvice(threads, kind) ==
  [threads EXCEPT ![Len(threads)].advice =
     Append(@, WitnessValue(kind, Len(threads), Len(@)))]

load_dense ==
  /\ pc = "build"
  /\ Work < MaxWork
  /\ threads_dense # <<>>
  /\ threads_dense' = PushAdvice(threads_dense, "dense")
  /\ ret' = <<>>
  /\ UNCHANGED <<witness_gen_only, use_unknown, threads_spread, thread_count,
                 core_advice, sizing_vars, packer_vars, pc, lock, pass_vars, fixed_vars, steps>>

load_spread ==
  /\ pc = "build"
  /\ Work < MaxWork
  /\ threads_spread # <<>>
  /\ threads_spread' = PushAdvice(threads_spread, "spread")
  /\ ret' = <<>>
  /\ UNCHANGED <<witness_gen_only, use_unknown, threads_dense, thread_count,
                 core_advice, sizing_vars, packer_vars, pc, lock, pass_vars, fixed_vars, steps>>

\* the caller exposes one more instance column, holding one assigned value,
\* by pushing onto the public field assigned_instances
push_instance ==
  /\ pc = "build"
  /\ Len(assigned_instances) < MaxInstances
  /\ assigned_instances' = Append(assigned_instances, <<Len(assigned_instances)>>)
  /\ ret' = <<>>
  /\ UNCHANGED <<builder_vars, sizing_vars, packer_vars, pc, lock, pass_vars,
                 builder_stage, ctor, meta, with_range, steps>>

(* ------------------ synthesis: sub_synthesize, assign_raw -------------- *)
\* BaseConfig::configure makes a range config exactly when the params carry
\* lookup_bits
ConfigWithRange(params) == params.lookup_bits # NoBits

\* sub_synthesize starts with the range table when the Config has one
SubSynthesizeEntry(range) == IF range THEN "load_lookup_table" ELSE "load_spread"

\* Circuit::synthesize with the Config made from the builder's params, whose
\* SpreadConfig has C column pairs
synthesize ==
  /\ pc = "build"
  /\ \E C \in 1..MaxColumns : num_advice_columns' = C
  /\ with_range' = ConfigWithRange(config_params)
  /\ pc' = SubSynthesizeEntry(with_range')
  /\ steps' = <<>>
  /\ ret' = <<>>
  /\ UNCHANGED <<builder_vars, sizing_vars, t, i, num_limb_sum, row_offset, region,
                 assigned_advices, lock, pass_vars, builder_stage, ctor,
                 assigned_instances, meta>>

\* config.load_lookup_table(layouter).expect(..): an Err panics
load_lookup_table_ok ==
  /\ pc = "load_lookup_table"
  /\ steps' = Append(steps, "load_lookup_table")
  /\ pc' = "load_spread"
  /\ UNCHANGED <<builder_vars, sizing_vars, packer_vars, lock, pass_vars,
                 fixed_vars, ret>>

load_lookup_table_fail ==
  /\ pc = "load_lookup_table"
  /\ pc' = "table_panic"
  /\ UNCHANGED <<builder_vars, sizing_vars, packer_vars, lock, pass_vars,
                 fixed_vars, obs_vars>>

\* config.compression.load(layouter)?: an Err is returned to the caller
load_spread_table_ok ==
  /\ pc = "load_spread"
  /\ steps' = Append(steps, "load_spread")
  /\ pc' = "assign_raw"
  /\ UNCHANGED <<builder_vars, sizing_vars, packer_vars, lock, pass_vars,
                 fixed_vars, ret>>

load_spread_table_fail ==
  /\ pc = "load_spread"
  /\ pc' = "error"
  /\ UNCHANGED <<builder_vars, sizing_vars, packer_vars, lock, pass_vars,
                 fixed_vars, obs_vars>>

\* assign_raw, first statement: the generic phase-0 lanes are assigned by the
\* core manager, which takes the copy manager mutex for the duration of its
\* own call when it tracks equality constraints
assign_raw_core ==
  /\ pc = "assign_raw"
  /\ witness_gen_only \/ lock = "none"
  /\ steps' = Append(steps, "assign_raw")
  /\ pc' = "assign_sha"
  /\ UNCHANGED <<builder_vars, sizing_vars, packer_vars, lock, pass_vars,
                 fixed_vars, ret>>

\* assign_raw, the branch on witness_gen_only: which use_unknown and which
\* copy manager the packer is called with
PackerUseUnknown == IF witness_gen_only THEN use_unknown ELSE FALSE

PackerHasCopyManager == witness_gen_only

\* copy_manager.lock() is taken before the packer is called and the guard lives
\* until the branch is left
LockNotTaken == lock

LockOnEntry == IF PackerHasCopyManager THEN "packer" ELSE lock

LockOnExit == IF PackerHasCopyManager THEN "none" ELSE lock

\* a panic unwinds through the guard: the mutex is released poisoned
LockOnPanic == IF PackerHasCopyManager THEN "poisoned" ELSE lock

assign_raw_sha ==
  /\ pc = "assign_sha"
  /\ PackerHasCopyManager => lock = "none"
  /\ lock' = LockOnEntry
  /\ num_limb_sum' = 0
  /\ row_offset' = 0
  /\ t' = 1
  /\ i' = 0
  /\ pc' = "pack_outer"
  /\ UNCHANGED <<builder_vars, sizing_vars, num_advice_columns, region,
                 assigned_advices, pass_vars, fixed_vars, obs_vars>>

(* ------------- sub_synthesize after assign_raw (circuit.rs) ------------ *)
\* the equality constraints and constants are replayed unless the builder
\* only generates witnesses
ReplaysAlways == TRUE

Replays == ~witness_gen_only

AfterLookups == IF Replays THEN "replay" ELSE "done"

\* lookup cells are assigned only with a range config
AfterAssignRaw == IF with_range THEN "assign_lookups" ELSE AfterLookups

assign_lookups_in_phase ==
  /\ pc = "assign_lookups"
  /\ steps' = Append(steps, "assign_lookups")
  /\ pc' = AfterLookups
  /\ UNCHANGED <<builder_vars, sizing_vars, packer_vars, lock, pass_vars,
                 fixed_vars, ret>>

\* copy_manager().assign_raw(constants, region): takes the mutex for the call
copy_manager_assign_raw ==
  /\ pc = "replay"
  /\ lock = "none"
  /\ steps' = Append(steps, "replay")
  /\ pc' = "done"
  /\ UNCHANGED <<builder_vars, sizing_vars, packer_vars, lock, pass_vars,
                 fixed_vars, ret>>

(* ----------------------- assign_threads_sha (gate.rs) ------------------ *)
\* zip_eq at position p of two sequences of lengths a and b (p 0-based):
\* "item" when both have one, "end" when both are exhausted, "panic" otherwise
ZipEqEager(p, a, b) ==
  IF a # b THEN "panic" ELSE IF p < a THEN "item" ELSE "end"

\* plain zip: stops at the shorter sequence
ZipShortest(p, a, b) == IF p < a /\ p < b THEN "item" ELSE "end"

ZipEqNext(p, a, b) ==
  IF p < a /\ p < b THEN "item"
  ELSE IF p >= a /\ p >= b THEN "end"
  ELSE "panic"

OuterNext == ZipEqNext(t - 1, Len(threads_dense), Len(threads_spread))

InnerNext ==
  ZipEqNext(i, Len(threads_dense[t].advice), Len(threads_spread[t].advice))

pack_outer_item ==
  /\ pc = "pack_outer"
  /\ OuterNext = "item"
  /\ i' = 0
  /\ pc' = "pack_inner"
  /\ UNCHANGED <<builder_vars, sizing_vars, num_advice_columns, t, num_limb_sum,
                 row_offset, region, assigned_advices, lock, pass_vars, fixed_vars, obs_vars>>

\* the lane lists taken out of the builder when the packer is done
pack_outer_end_draining ==
  /\ pc = "pack_outer"
  /\ OuterNext = "end"
  /\ lock' = LockOnExit
  /\ pc' = AfterAssignRaw
  /\ threads_dense' = <<>>
  /\ threads_spread' = <<>>
  /\ UNCHANGED <<witness_gen_only, use_unknown, thread_count, core_advice,
                 sizing_vars, packer_vars, pass_vars, fixed_vars, obs_vars>>

\* the packer returns and assign_raw with it: sub_synthesize goes on
pack_outer_end ==
  /\ pc = "pack_outer"
  /\ OuterNext = "end"
  /\ lock' = LockOnExit
  /\ pc' = AfterAssignRaw
  /\ UNCHANGED <<builder_vars, sizing_vars, packer_vars, pass_vars, fixed_vars, obs_vars>>

pack_outer_panic ==
  /\ pc = "pack_outer"
  /\ OuterNext = "panic"
  /\ lock' = LockOnPanic
  /\ pc' = "aborted"
  /\ UNCHANGED <<builder_vars, sizing_vars, packer_vars, pass_vars, fixed_vars, obs_vars>>

ColumnIdxPerLane(n, idx, C) == idx % C

ColumnIdx(n, idx, C) == n % C

ValueOf(advice) == IF PackerUseUnknown THEN Unknown ELSE advice

\* region.assign_advice(.., column, row_offset, value): one entry of the log
Assignment(kind, column_idx, row, value, lane, idx) ==
  [kind |-> kind, column |-> column_idx, row |-> row, value |-> value,
   lane |-> lane, index |-> idx]

\* the physical cell assign_advice returns
CellOf(a) == <<a.kind, a.column, a.row>>

ContextCell(ctx, idx) == <<ctx.type_id, ctx.id, idx>>

MapInsert(m, key, val) ==
  [x \in DOMAIN m \cup {key} |-> IF x = key THEN val ELSE m[x]]

\* if let Some(copy_manager) = copy_manager.as_mut() { insert }
Record(m, ctx, idx, cell) ==
  IF PackerHasCopyManager THEN MapInsert(m, ContextCell(ctx, idx), cell) ELSE m

NextRowByMode(row, column_idx, C) ==
  IF witness_gen_only
    THEN (IF column_idx = C - 1 THEN row + 1 ELSE row)
    ELSE (IF column_idx = C - 1 THEN row + 1 ELSE row) + 1

\* the row after a cell pair has been placed in column column_idx
\* the last column compared against C instead of C - 1
NextRowOffByOne(row, column_idx, C) == IF column_idx = C THEN row + 1 ELSE row

\* a row left blank each time the last column has been filled
NextRowBlank(row, column_idx, C) == (IF column_idx = C - 1 THEN row + 2 ELSE row) + 1

NextRow(row, column_idx, C) ==
  (IF column_idx = C - 1 THEN row + 1 ELSE row) + 1

pack_place ==
  /\ pc = "pack_inner"
  /\ InnerNext = "item"
  /\ LET ctx_dense == threads_dense[t]
         ctx_spread == threads_spread[t]
         column_idx == ColumnIdx(num_limb_sum, i, num_advice_columns)
         a_dense == Assignment("dense", column_idx, row_offset,
                               ValueOf(ctx_dense.advice[i + 1]), t, i)
         a_spread == Assignment("spread", column_idx, row_offset,
                                ValueOf(ctx_spread.advice[i + 1]), t, i)
     IN /\ region' = region \o <<a_dense, a_spread>>
        /\ assigned_advices' =
             Record(Record(assigned_advices, ctx_dense, i, CellOf(a_dense)),
                    ctx_spread, i, CellOf(a_spread))
        /\ row_offset' = NextRow(row_offset, column_idx, num_advice_columns)
  /\ num_limb_sum' = num_limb_sum + 1
  /\ i' = i + 1
  /\ UNCHANGED <<builder_vars, sizing_vars, num_advice_columns, t, pc, lock,
                 pass_vars, fixed_vars, obs_vars>>

pack_inner_end ==
  /\ pc = "pack_inner"
  /\ InnerNext = "end"
  /\ t' = t + 1
  /\ pc' = "pack_outer"
  /\ UNCHANGED <<builder_vars, sizing_vars, num_advice_columns, i, num_limb_sum,
                 row_offset, region, assigned_advices, lock, pass_vars, fixed_vars, obs_vars>>

pack_inner_panic ==
  /\ pc = "pack_inner"
  /\ InnerNext = "panic"
  /\ lock' = LockOnPanic
  /\ pc' = "aborted"
  /\ UNCHANGED <<builder_vars, sizing_vars, packer_vars, pass_vars, fixed_vars, obs_vars>>

(* ------------------- a second construction pass ------------------------ *)
\* the layout of a region: where each cell went, without the stored values
Layout(r) ==
  [j \in 1..Len(r) |->
     [kind |-> r[j].kind, column |-> r[j].column, row |-> r[j].row,
      lane |-> r[j].lane, index |-> r[j].index]]

\* the lanes of a builder constructed for `stage` on which the caller repeats
\* the same lane creations and the same number of pushes per lane
Rebuilt(threads, kind, stage) ==
  [l \in 1..Len(threads) |->
     [id |-> threads[l].id, type_id |-> threads[l].type_id,
      witness_gen_only |-> StageWitnessGenOnly(stage),
      advice |-> [x \in 1..Len(threads[l].advice) |->
                    2000 + (IF kind = "dense" THEN 100 ELSE 200) + 10 * l + (x - 1)]]]

\* A later pass (keygen, then proving) builds a fresh builder from_stage(stage),
\* records the same lanes again and is synthesized with the same Config.
next_pass ==
  /\ pass = 1
  /\ pc \in {"done", "aborted"}
  /\ \E stage \in Stages :
       /\ witness_gen_only' = StageWitnessGenOnly(stage)
       /\ use_unknown' = StageUseUnknown(stage)
       /\ threads_dense' = Rebuilt(threads_dense, "dense", stage)
       /\ threads_spread' = Rebuilt(threads_spread, "spread", stage)
       /\ builder_stage' = stage
  /\ pass' = 2
  /\ prev_pass' = [layout |-> Layout(region), witness_gen_only |-> witness_gen_only,
                   use_unknown |-> use_unknown]
  /\ region' = <<>>
  /\ assigned_advices' = EmptyMap
  /\ lock' = "none"
  /\ t' = 1
  /\ i' = 0
  /\ num_limb_sum' = 0
  /\ row_offset' = 0
  /\ pc' = SubSynthesizeEntry(with_range)
  /\ steps' = <<>>
  /\ UNCHANGED <<thread_count, core_advice, sizing_vars, num_advice_columns,
                 ctor, assigned_instances, meta, with_range, ret>>

(* -------------- another holder of the shared copy manager -------------- *)
\* a lookup collector holding a clone of the SharedCopyConstraintManager
collector_lock ==
  /\ lock = "none"
  /\ lock' = "collector"
  /\ UNCHANGED <<builder_vars, sizing_vars, packer_vars, pc, pass_vars, fixed_vars, obs_vars>>

collector_unlock ==
  /\ lock = "collector"
  /\ lock' = "none"
  /\ UNCHANGED <<builder_vars, sizing_vars, packer_vars, pc, pass_vars, fixed_vars, obs_vars>>

(* --------------- ShaCircuitBuilder: shape and sizing (circuit.rs) ------- *)
set_k ==
  /\ pc = "build"
  /\ \E k \in 0..MaxK : config_params' = [config_params EXCEPT !.k = k]
  /\ last_call' = <<>>
  /\ UNCHANGED <<builder_vars, lookup_total, packer_vars, pc, lock, pass_vars, fixed_vars, obs_vars>>

set_lookup_bits ==
  /\ pc = "build"
  /\ config_params' = [config_params EXCEPT !.lookup_bits = 8]
  /\ last_call' = <<>>
  /\ UNCHANGED <<builder_vars, lookup_total, packer_vars, pc, lock, pass_vars, fixed_vars, obs_vars>>

\* a RangeChip made by range_chip() records one more cell to look up in phase p
add_lookup ==
  /\ pc = "build"
  /\ \E p \in Phases :
       /\ lookup_total[p] < MaxLookup
       /\ lookup_total' = [lookup_total EXCEPT ![p] = @ + 1]
  /\ last_call' = <<>>
  /\ UNCHANGED <<builder_vars, config_params, packer_vars, pc, lock, pass_vars, fixed_vars, obs_vars>>

\* the caller records one more generic advice cell through main()
core_load ==
  /\ pc = "build"
  /\ core_advice < MaxCoreAdvice
  /\ thread_count' = MainThreadCount
  /\ core_advice' = core_advice + 1
  /\ last_call' = <<>>
  /\ UNCHANGED <<witness_gen_only, use_unknown, threads_dense, threads_spread,
                 lookup_total, config_params, packer_vars, pc, lock, pass_vars, fixed_vars, obs_vars>>

LookupColumnsPlusOne(count, max_rows) == count \div max_rows + 1

\* (count + max_rows - 1) / max_rows in usize arithmetic
LookupColumns(count, max_rows) == (count + max_rows - 1) \div max_rows

total_lookup_advice_per_phase == [p \in 1..MAX_PHASE |-> lookup_total[p - 1]]

\* ShaThreadBuilder::calculate_params delegates to the core manager, which sizes
\* the generic columns from its own threads: the dense and spread lanes are not
\* part of its statistics
CoreCalculateParams(k, minimum_rows) ==
  [k |-> k,
   num_advice_per_phase |->
     [p \in 1..MAX_PHASE |->
        IF p = FIRST_PHASE + 1
          THEN (core_advice + (Pow2(k) - minimum_rows) - 1) \div (Pow2(k) - minimum_rows)
          ELSE 0],
   num_fixed |-> 0]

SizingParamsNextK(minimum_rows) ==
  LET k == config_params.k
      max_rows == Pow2(k) - minimum_rows
      gate_params == CoreCalculateParams(k, minimum_rows)
  IN [k |-> gate_params.k + 1,
      num_advice_per_phase |-> gate_params.num_advice_per_phase,
      num_fixed |-> gate_params.num_fixed,
      num_lookup_advice_per_phase |->
        [p \in 1..MAX_PHASE |->
           LookupColumns(total_lookup_advice_per_phase[p], max_rows)],
      lookup_bits |-> config_params.lookup_bits,
      num_instance_columns |-> config_params.num_instance_columns]

\* the BaseCircuitParams calculate_params(minimum_rows) builds
SizingParams(minimum_rows) ==
  LET k == config_params.k
      ni == config_params.num_instance_columns
      max_rows == Pow2(k) - minimum_rows
      gate_params == CoreCalculateParams(k, minimum_rows)
  IN [k |-> gate_params.k,
      num_advice_per_phase |-> gate_params.num_advice_per_phase,
      num_fixed |-> gate_params.num_fixed,
      num_lookup_advice_per_phase |->
        [p \in 1..MAX_PHASE |->
           LookupColumns(total_lookup_advice_per_phase[p], max_rows)],
      lookup_bits |-> config_params.lookup_bits,
      num_instance_columns |-> ni]

\* minimum_rows is drawn from 0..2^k (None is 0); with max_rows = 0 the
\* division panics
calculate_params ==
  /\ pc = "build"
  /\ \E minimum_rows \in 0..Pow2(config_params.k) :
       IF Pow2(config_params.k) - minimum_rows = 0
         THEN /\ pc' = "aborted"
              /\ UNCHANGED <<config_params, last_call>>
         ELSE /\ config_params' = SizingParams(minimum_rows)
              /\ last_call' = [minimum_rows |-> minimum_rows,
                               k |-> config_params.k,
                               total_lookup |-> lookup_total,
                               work |-> Work,
                               params |-> SizingParams(minimum_rows)]
              /\ pc' = pc
  /\ UNCHANGED <<builder_vars, lookup_total, packer_vars, lock, pass_vars, fixed_vars, obs_vars>>

(* ---------------- Circuit::configure* and SHAConfig (circuit.rs) ------- *)
RECURSIVE SeqSum(_)
SeqSum(q) == IF q = <<>> THEN 0 ELSE Head(q) + SeqSum(Tail(q))

\* BaseConfig::configure allocates the columns the params ask for, and the
\* range table column when lookup_bits is set
BaseConfig_configure(m, params) ==
  [m EXCEPT !.base = @ + SeqSum(params.num_advice_per_phase)
                       + SeqSum(params.num_lookup_advice_per_phase)
                       + params.num_fixed + params.num_instance_columns
                       + (IF ConfigWithRange(params) THEN 1 ELSE 0)]

\* SpreadConfig::configure(meta, bits, C): C dense and C spread advice columns
\* for the dense/spread table, a width that does not depend on the params
SpreadConfig_configure(m, C) ==
  [m EXCEPT !.dense = @ + C, !.spread = @ + C]

SpreadColumnsConfigured == 1

\* SHAConfig::configure: the ConstraintSystem afterwards and the Config
SHAConfig_configure(m, params) ==
  [meta |-> SpreadConfig_configure(BaseConfig_configure(m, params),
                                   SpreadColumnsConfigured),
   config |-> [num_advice_columns |-> SpreadColumnsConfigured,
               with_range |-> ConfigWithRange(params)]]

\* Circuit::configure_with_params, called by the proving system with params()
configure_with_params ==
  /\ pc = "build"
  /\ meta.dense < MaxConfigured
  /\ meta' = SHAConfig_configure(meta, config_params).meta
  /\ ret' = SHAConfig_configure(meta, config_params).config
  /\ UNCHANGED <<builder_vars, sizing_vars, packer_vars, pc, lock, pass_vars,
                 builder_stage, ctor, assigned_instances, with_range, steps>>

\* a zero-argument configure that falls back to the default params
configure_with_default ==
  /\ pc = "build"
  /\ meta' = SpreadConfig_configure(meta, SpreadColumnsConfigured)
  /\ ret' = [num_advice_columns |-> SpreadColumnsConfigured, with_range |-> FALSE]
  /\ UNCHANGED <<builder_vars, sizing_vars, packer_vars, pc, lock, pass_vars,
                 builder_stage, ctor, assigned_instances, with_range, steps>>

\* Circuit::configure: unreachable!(..) before anything is done with meta
configure ==
  /\ pc = "build"
  /\ pc' = "unreachable"
  /\ ret' = <<>>
  /\ UNCHANGED <<builder_vars, sizing_vars, packer_vars, lock, pass_vars,
                 fixed_vars, steps>>

\* a builder on which sha_contexts_pair has been called and one witness pushed
\* onto each lane of the pair
RecordedLane(stage, kind) ==
  <<[id |-> 0, type_id |-> type_of,
     witness_gen_only |-> StageWitnessGenOnly(stage),
     advice |-> <<1000 + (IF kind = "dense" THEN 100 ELSE 200) + 10>>]>>

InitSizing ==
  /\ \E stage \in Stages :
       /\ witness_gen_only = StageWitnessGenOnly(stage)
       /\ use_unknown = StageUseUnknown(stage)
       /\ threads_dense = RecordedLane(stage, "dense")
       /\ threads_spread = RecordedLane(stage, "spread")
       /\ builder_stage = stage
  /\ ctor = <<"ShaCircuitBuilder", "from_stage">>
  /\ assigned_instances = <<>>
  /\ meta = NoColumns
  /\ with_range = FALSE
  /\ steps = <<>>
  /\ ret = <<>>
  /\ thread_count = 1
  /\ core_advice = 0
  /\ lookup_total = [p \in Phases |-> 0]
  /\ config_params = [k |-> 0, num_advice_per_phase |-> <<>>, num_fixed |-> 0,
                      num_lookup_advice_per_phase |-> <<>>, lookup_bits |-> NoBits,
                      num_instance_columns |-> 0]
  /\ last_call = <<>>
  /\ num_advice_columns = 1
  /\ pc = "build"
  /\ t = 1
  /\ i = 0
  /\ num_limb_sum = 0
  /\ row_offset = 0
  /\ region = <<>>
  /\ assigned_advices = EmptyMap
  /\ lock = "none"
  /\ pass = 1
  /\ prev_pass = NoPass

Sizing ==
  \/ set_k
  \/ set_lookup_bits
  \/ add_lookup
  \/ core_load
  \/ calculate_params

Build ==
  \/ main
  \/ new_thread
  \/ new_thread_dense
  \/ new_thread_spread
  \/ sha_contexts_pair
  \/ load_dense
  \/ load_spread

Synthesis ==
  \/ synthesize
  \/ load_spread_table_ok
  \/ load_spread_table_fail
  \/ copy_manager_assign_raw
  \/ assign_raw_core
  \/ assign_raw_sha
  \/ pack_outer_item
  \/ pack_outer_end
  \/ pack_outer_panic
  \/ pack_place
  \/ pack_inner_end
  \/ pack_inner_panic

Next == Build \/ Synthesis

Spec == Init /\ [][Next]_vars

\* a builder made by any constructor of either builder type
InitStages ==
  /\ \E c \in Constructors : \E stage \in CtorStages(c) :
       /\ EmptyBuilder(Construct(c, stage))
       /\ builder_stage = stage
       /\ ctor = c
  /\ Fresh

\* lane creation on a builder made by any of the constructors
SpecStages == InitStages /\ [][Build]_vars

\* one pass of a builder with one lane pair or an extra dense lane, exposed
\* instances and a log-size set by the caller
SpecFrame ==
  Init /\ [][\/ sha_contexts_pair
             \/ new_thread_dense
             \/ load_dense
             \/ load_spread
             \/ push_instance
             \/ set_k
             \/ Synthesis]_vars

\* sizing, then configuration of a ConstraintSystem by the proving system
SpecConfigure ==
  InitSizing /\ [][\/ set_k
                   \/ set_lookup_bits
                   \/ core_load
                   \/ calculate_params
                   \/ configure_with_params
                   \/ configure]_vars

\* one lane pair recorded, then sized for a log-size the caller sets, then
\* synthesized
SpecFit ==
  Init /\ [][\/ sha_contexts_pair
             \/ load_dense
             \/ load_spread
             \/ set_k
             \/ calculate_params
             \/ synthesize
             \/ load_spread_table_ok
             \/ load_spread_table_fail
             \/ copy_manager_assign_raw
             \/ assign_raw_core
             \/ assign_raw_sha
             \/ pack_outer_item
             \/ pack_outer_end
             \/ pack_place
             \/ pack_inner_end
             \/ pack_inner_panic]_vars

\* the steps sub_synthesize takes only with a range config
RangeSynthesis ==
  \/ load_lookup_table_ok
  \/ load_lookup_table_fail
  \/ assign_lookups_in_phase

\* one pass of a builder that may have lookup_bits set
SpecRange == Init /\ [][Next \/ set_lookup_bits \/ RangeSynthesis]_vars

\* two construction passes over the same recorded work
SpecPasses == Init /\ [][Next \/ next_pass]_vars

\* one pass, with a concurrent holder of the copy manager
SpecConc == Init /\ [][Next \/ collector_lock \/ collector_unlock]_vars

\* sizing of a builder with recorded work
SpecSizing == InitSizing /\ [][Sizing]_vars
(* =============================== claims =============================== *)
\* the number of cell pairs the packer has placed so far
Placed == Len(region) \div 2

\* the dense and the spread assignment of the n-th cell pair (n from 0)
DenseOf(n) == region[2 * n + 1]
SpreadOf(n) == region[2 * n + 2]

\* C1: the n-th cell pair placed by assign_threads_sha (n from 0, over all lane
\* pairs) is at row floor(n / C), so N cells packed from n = 0 use ceil(N / C) rows.
C1_RowIsFloor ==
  \A n \in 0..(Placed - 1) :
    /\ DenseOf(n).row = n \div num_advice_columns
    /\ SpreadOf(n).row = n \div num_advice_columns

\* C2: the n-th cell pair is placed at column n mod C, the counter n running on
\* across lane pairs, and the dense cell and its index-correlated spread cell
\* are written at the same row and the same column index.
C2_ColumnIsCounterMod ==
  /\ Len(region) = 2 * Placed
  /\ \A n \in 0..(Placed - 1) :
       /\ DenseOf(n).kind = "dense"
       /\ SpreadOf(n).kind = "spread"
       /\ DenseOf(n).column = n % num_advice_columns
       /\ SpreadOf(n).column = DenseOf(n).column
       /\ SpreadOf(n).row = DenseOf(n).row
       /\ SpreadOf(n).lane = DenseOf(n).lane
       /\ SpreadOf(n).index = DenseOf(n).index

\* C2 witness: with C = 2 the first cell of the second lane pair is the second
\* cell overall and lands in column 1
C2_Witness ==
  /\ num_advice_columns = 2
  /\ Placed >= 2
  /\ DenseOf(1).lane = 2
  /\ DenseOf(1).index = 0
  /\ DenseOf(1).column = 1
  /\ SpreadOf(1).column = 1

\* the packer has aborted on a lane pair whose two lanes differ in length
AbortedOnLengths == pc = "aborted" /\ OuterNext = "item"

C4_SameLayout ==
  (pass = 2 /\ pc \in {"done", "aborted"}) => Layout(region) = prev_pass.layout

\* C4 witness: a completed second pass in the other tracking mode that placed
\* cells, and stored other values than the first pass would have
C4_Witness ==
  /\ pass = 2
  /\ pc = "done"
  /\ Placed >= 2
  /\ prev_pass.witness_gen_only # witness_gen_only
  /\ Len(prev_pass.layout) = Len(region)

\* C5: in placeholder mode (use_unknown) every cell the packer writes carries the
\* unknown value; in concrete mode every cell carries its lane's value.
C5_ValuesFollowVisibility ==
  \A n \in 0..(Placed - 1) :
    /\ DenseOf(n).value =
         IF use_unknown THEN Unknown
         ELSE threads_dense[DenseOf(n).lane].advice[DenseOf(n).index + 1]
    /\ SpreadOf(n).value =
         IF use_unknown THEN Unknown
         ELSE threads_spread[SpreadOf(n).lane].advice[SpreadOf(n).index + 1]

\* C6: the packer records a mapping for every cell it places iff equality
\* tracking is active (witness_gen_only = FALSE); a prover pass inserts nothing.
C6_MapIffTracking ==
  pc = "done" =>
    IF witness_gen_only
      THEN assigned_advices = EmptyMap
      ELSE \A n \in 0..(Placed - 1) :
             /\ ContextCell(threads_dense[DenseOf(n).lane], DenseOf(n).index)
                  \in DOMAIN assigned_advices
             /\ ContextCell(threads_spread[SpreadOf(n).lane], SpreadOf(n).index)
                  \in DOMAIN assigned_advices

\* usable rows of the last calculate_params call
LastMaxRows == Pow2(last_call.k) - last_call.minimum_rows

\* c is the least number of columns of M rows that hold R cells
IsCeilDiv(c, R, M) == c * M >= R /\ (c > 0 => (c - 1) * M < R)

\* C7: calculate_params returns, for every phase, ceil(R / M) lookup-advice
\* columns, R the phase's lookup cells and M = (1 << k) - minimum_rows >= 1.
C7_LookupColumnsAreCeil ==
  last_call # <<>> =>
    \A p \in 1..MAX_PHASE :
      IsCeilDiv(last_call.params.num_lookup_advice_per_phase[p],
                last_call.total_lookup[p - 1], LastMaxRows)

\* C7 witness: one call with phases holding R = 0, R = M and R = M + 1 cells,
\* answered with 0, 1 and 2 columns
C7_Witness ==
  /\ last_call # <<>>
  /\ \E p, q, r \in 1..MAX_PHASE :
       /\ last_call.total_lookup[p - 1] = 0
       /\ last_call.params.num_lookup_advice_per_phase[p] = 0
       /\ last_call.total_lookup[q - 1] = LastMaxRows
       /\ last_call.params.num_lookup_advice_per_phase[q] = 1
       /\ last_call.total_lookup[r - 1] = LastMaxRows + 1
       /\ last_call.params.num_lookup_advice_per_phase[r] = 2

\* a step in which calculate_params returned
SizingReturned == last_call' # <<>> /\ last_call' # last_call

\* C8: calling calculate_params again with the same minimum_rows and no work
\* added in between returns the same Shape Descriptor, and no call changes the
\* recorded lanes or the lookup statistics; only config_params is updated.
C8_SizingIdempotent ==
  /\ [](last_call # <<>> =>
          /\ config_params = last_call.params
          /\ SizingParams(last_call.minimum_rows) = last_call.params)
  /\ [][SizingReturned =>
          UNCHANGED <<threads_dense, threads_spread, thread_count, core_advice,
                      lookup_total, witness_gen_only, use_unknown>>]_vars

\* C8 witness: a call has returned on a builder with lanes, generic work and
\* lookup cells recorded
C8_Witness ==
  /\ last_call # <<>>
  /\ threads_dense # <<>>
  /\ threads_spread # <<>>
  /\ core_advice > 0
  /\ lookup_total[0] > 0
  /\ last_call.minimum_rows > 0
  /\ config_params = last_call.params

\* C9: the ids of successively created dense lanes are strictly increasing, and
\* so are the ids of successively created spread lanes.
C9_LaneIdsStrictlyIncrease ==
  /\ \A a, b \in 1..Len(threads_dense) :
       a < b => threads_dense[a].id < threads_dense[b].id
  /\ \A a, b \in 1..Len(threads_spread) :
       a < b => threads_spread[a].id < threads_spread[b].id

\* the packer is between the placement of one cell and the next
BetweenPlacements == pc = "pack_inner" /\ Placed >= 1 /\ InnerNext = "item"

StepAt(name) ==
  IF \E n \in 1..Len(steps) : steps[n] = name
    THEN CHOOSE n \in 1..Len(steps) : steps[n] = name
    ELSE 0

\* step a has run, and before step b if that has run too
RanBefore(a, b) == StepAt(a) > 0 /\ (StepAt(b) > 0 => StepAt(a) < StepAt(b))

\* C11: in a synthesis pass the range table is loaded first and only with a
\* range config, then the dense/spread table, then the packer places the lanes,
\* then the recorded equality constraints are replayed; a pass that completes
\* has replayed them exactly when witness_gen_only = false, and nothing is
\* placed when a table load fails.
C11_SynthesisOrder ==
  /\ StepAt("load_lookup_table") > 0 => with_range
  /\ (StepAt("load_spread") > 0 /\ with_range)
       => RanBefore("load_lookup_table", "load_spread")
  /\ (StepAt("assign_raw") > 0 \/ region # <<>>)
       => RanBefore("load_spread", "assign_raw")
  /\ StepAt("replay") > 0
       => /\ RanBefore("assign_raw", "replay")
          /\ Len(region) = TotalCells(threads_dense) + TotalCells(threads_spread)
          /\ ~witness_gen_only
  /\ pc = "done" => (StepAt("replay") > 0 <=> ~witness_gen_only)
  /\ pc \in {"table_panic", "error"} => (region = <<>> /\ StepAt("assign_raw") = 0)

C11_Witness ==
  /\ pc = "done"
  /\ ~witness_gen_only
  /\ steps = <<"load_lookup_table", "load_spread", "assign_raw", "assign_lookups",
               "replay">>
  /\ Len(region) >= 4

\* C12: within one invocation of the packer no physical slot is assigned twice:
\* two different assign_advice calls never name the same kind (dense or
\* spread), column and row, whatever the lanes and the column width are.
C12_SlotsAssignedOnce ==
  \A j, k \in 1..Len(region) :
    j # k => CellOf(region[j]) # CellOf(region[k])

\* two lane pairs of one cell each, packed into a single column pair
C12_Witness ==
  /\ pc = "done"
  /\ num_advice_columns = 1
  /\ Placed = 2
  /\ DenseOf(0).lane = 1
  /\ DenseOf(1).lane = 2

\* a lane list after a step that may only have added `added` lanes at its end
GrownBy(threads, after, added) ==
  /\ Len(after) = Len(threads) + added
  /\ \A l \in 1..Len(threads) : after[l] = threads[l]

\* C13: sha_contexts_pair returns the most recently created dense lane and the
\* most recently created spread lane; it creates a lane of a kind only when
\* none of that kind exists, so once both kinds exist further calls leave the
\* lane lists as they are, and a lane list grows otherwise only through
\* new_thread_dense / new_thread_spread.
C13_PairReturnsLastLanes ==
  /\ [](ret # <<>> =>
          /\ ret = <<Len(threads_dense), Len(threads_spread)>>
          /\ ret[1] >= 1
          /\ ret[2] >= 1)
  /\ [][/\ sha_contexts_pair =>
             /\ GrownBy(threads_dense, threads_dense',
                        IF threads_dense = <<>> THEN 1 ELSE 0)
             /\ GrownBy(threads_spread, threads_spread',
                        IF threads_spread = <<>> THEN 1 ELSE 0)
        /\ Len(threads_dense') > Len(threads_dense) =>
             (new_thread_dense \/ (sha_contexts_pair /\ threads_dense = <<>>))
        /\ Len(threads_spread') > Len(threads_spread) =>
             (new_thread_spread \/ (sha_contexts_pair /\ threads_spread = <<>>))]_vars

\* a call made when two dense lanes and one spread lane existed
C13_Witness ==
  /\ ret = <<2, 1>>
  /\ Len(threads_dense) = 2
  /\ Len(threads_spread) = 1
  /\ thread_count >= 1

AllLanes == {threads_dense[l] : l \in 1..Len(threads_dense)}
              \cup {threads_spread[l] : l \in 1..Len(threads_spread)}

\* C14: whichever constructor of ShaThreadBuilder or ShaCircuitBuilder made
\* the builder, its flags are (witness_gen_only, use_unknown) = (false, true)
\* for keygen, (false, false) for mock and (true, false) for prover, and every
\* lane created afterwards carries the builder's witness_gen_only.
C14_StageFixesFlags ==
  /\ builder_stage = "Keygen" => (~witness_gen_only /\ use_unknown)
  /\ builder_stage = "Mock" => (~witness_gen_only /\ ~use_unknown)
  /\ builder_stage = "Prover" => (witness_gen_only /\ ~use_unknown)
  /\ \A lane \in AllLanes : lane.witness_gen_only = witness_gen_only

\* a keygen builder made by ShaCircuitBuilder::from_stage with a lane of each
\* kind created by sha_contexts_pair
C14_Witness ==
  /\ ctor = <<"ShaCircuitBuilder", "from_stage">>
  /\ builder_stage = "Keygen"
  /\ ret = <<1, 1>>

\* C15: a synthesis pass leaves the recorded work as it is: the lanes (their
\* number, order and cell contents), the generic threads, config_params and
\* assigned_instances are the same after every step of the pass.
C15_SynthesisKeepsBuilder ==
  [][pc' # "build" =>
       UNCHANGED <<threads_dense, threads_spread, thread_count, core_advice,
                   config_params, assigned_instances>>]_vars

\* a completed pass of a builder with exposed instances and k set to 2
C15_Witness ==
  /\ pc = "done"
  /\ StepAt("replay") > 0
  /\ assigned_instances # <<>>
  /\ config_params.k = 2
  /\ Placed >= 2

\* the value a configure call hands back is a Config
IsConfig(v) == v # <<>> /\ DOMAIN v = {"num_advice_columns", "with_range"}

\* C16: the zero-argument Circuit::configure fails at once in every state of
\* the constraint system: it allocates no column and returns no Config; a
\* Config is returned, and columns are allocated, only by
\* configure_with_params.
C16_ConfigureAlwaysFails ==
  /\ [](pc = "build" => ENABLED configure)
  /\ [](pc = "unreachable" => ~IsConfig(ret))
  /\ [][/\ configure => (pc' = "unreachable" /\ meta' = meta /\ ~IsConfig(ret'))
        /\ (meta' # meta \/ (IsConfig(ret') /\ ret' # ret)) => configure_with_params]_vars

\* configure called on a constraint system that already holds the columns of
\* an earlier configure_with_params
C16_Witness ==
  /\ pc = "unreachable"
  /\ meta.dense = 1
  /\ meta.base >= 2

\* the (type tag, lane id) of a lane, and those of the generic phase-0 threads
LaneTag(ctx) == <<ctx.type_id, ctx.id>>

GenericTags == {<<type_of, id>> : id \in 0..(thread_count - 1)}

\* C17: distinct abstract cells have distinct identities (type tag, lane id,
\* index): no dense lane shares its (type tag, lane id) with a spread lane or
\* with a generic thread, nor does a spread lane with a generic thread, and
\* when the packer records the mappings of the cell pairs it has placed the
\* map holds one entry per placed cell, two per pair, so that the entry of
\* spread cell i never replaces the entry of dense cell i.
C17_DistinctCellIdentities ==
  /\ \A d \in 1..Len(threads_dense), sp \in 1..Len(threads_spread) :
       LaneTag(threads_dense[d]) # LaneTag(threads_spread[sp])
  /\ \A lane \in AllLanes : LaneTag(lane) \notin GenericTags
  /\ PackerHasCopyManager => Cardinality(DOMAIN assigned_advices) = Len(region)

\* the packer has returned normally
PackerCompleted == pc \in {"assign_lookups", "replay", "done"}

\* C18: the packer pairs the j-th dense lane with the j-th spread lane, cell by
\* cell, and never drops an unpaired lane: it completes only when there are as
\* many dense lanes as spread lanes and every recorded cell has been placed,
\* and with unequal lane counts the traversal can only end in the abort.
C18_UnpairedLaneAborts ==
  /\ \A n \in 0..(Placed - 1) :
       /\ DenseOf(n).kind = "dense"
       /\ SpreadOf(n).kind = "spread"
       /\ DenseOf(n).lane = SpreadOf(n).lane
       /\ DenseOf(n).index = SpreadOf(n).index
  /\ PackerCompleted =>
       /\ Len(threads_dense) = Len(threads_spread)
       /\ Len(region) = TotalCells(threads_dense) + TotalCells(threads_spread)
  /\ (pc = "pack_outer" /\ Len(threads_dense) # Len(threads_spread))
       => (~ENABLED pack_outer_end /\ (OuterNext # "item" => ENABLED pack_outer_panic))

\* two dense lanes against one spread lane: the first pair was packed, then
\* the traversal aborted on the unpaired dense lane
C18_Witness ==
  /\ pc = "aborted"
  /\ Len(threads_dense) = 2
  /\ Len(threads_spread) = 1
  /\ t = 2
  /\ Placed >= 1

\* the pass is synthesized after calculate_params sized the work recorded
SizedForWork == pc # "build" /\ last_call # <<>> /\ last_call.work = Work

\* C19 as stated: once calculate_params has sized the recorded work for k and
\* the reserved rows, every row the packer assigns to a dense or spread cell
\* is below the usable rows (1 << k) - reserved_rows, however many cells were
\* recorded.
C19_RowsBelowUsableRows ==
  SizedForWork =>
    \A j \in 1..Len(region) : region[j].row < LastMaxRows

\* C19, amended: the rows the packer assigns do not depend on the sizing; the
\* n-th cell pair (n from 0) is never assigned beyond row 2 * n, so every
\* assigned row is below the usable rows whenever 2 * (N - 1) is, N being the
\* number of cell pairs placed.
C19_RowsFitSmallWork ==
  /\ \A n \in 0..(Placed - 1) : DenseOf(n).row <= 2 * n /\ SpreadOf(n).row <= 2 * n
  /\ (SizedForWork /\ 2 * (Placed - 1) < LastMaxRows)
       => \A j \in 1..Len(region) : region[j].row < LastMaxRows

\* two cell pairs in one column pair, sized with three usable rows
C19_Witness ==
  /\ SizedForWork
  /\ pc = "done"
  /\ LastMaxRows = 3
  /\ num_advice_columns = 1
  /\ Placed = 2
====
